---- MODULE Spec2Model ----
(***************************************************************************)
(* Capture-and-archive pipeline of the Compliance Screenshot Archiver:     *)
(* renderers, process_capture_request, the S3 and DynamoDB adapters, the   *)
(* Lambda entry points and the capture routes.                             *)
(***************************************************************************)
EXTENDS Integers, Sequences, FiniteSets, TLC

\* ------------------------------------------------------------------ bounds
MaxAttempts == 2
MaxRouteCaptures == 1
MaxRenderRuns == 1
MaxJwksCalls == 2
MaxTicks == 3
MaxScheduleTicks == 1
MaxBatch == 2

\* ------------------------------------------------------- program constants
MAX_PRESIGN_TTL_SECONDS == 900
JWKS_CACHE_TTL == 300
DEFAULT_PRESIGN_TTL == 300
PDF_MAGIC == 37
PNG_MAGIC == 137

\* --------------------------------------------------------------- universes
None == "None"
Bytes == {0, 1}
Contents == {<<>>} \cup {<<b>> : b \in Bytes}
ValidKinds == {"pdf", "png"}
Kinds == {"pdf", "png", "svg"}
Users == {"alice", "bob"}
Msgs == {"m1", "m2"}

\* ------------------------------------------------------------------ hasher
RECURSIVE Sha256Fold(_, _)
Sha256Fold(h, b) ==
  IF b = <<>> THEN h
  ELSE Sha256Fold((h * 31 + Head(b) + 1) % 65521, Tail(b))

\* hashlib.sha256(artifact_data).hexdigest(): a deterministic digest of the
\* whole byte string (every byte and the length change the value).
Sha256(b) == Sha256Fold(7, b)

\* --------------------------------------------------------------- renderers
\* A renderer's outcome: returned result or raised exception, with the
\* browser / network operations it attempted, in order.
ReturnedHashBeforeHeader(data, ops) ==
  [ok |-> TRUE, exc |-> None, msg |-> None, data |-> data,
   sha256 |-> Sha256(Tail(data)), content_length |-> Len(data), ops |-> ops]

Returned(data, ops) ==
  [ok |-> TRUE, exc |-> None, msg |-> None, data |-> data,
   sha256 |-> Sha256(data), content_length |-> Len(data), ops |-> ops]

Raised(exc, msg, ops) ==
  [ok |-> FALSE, exc |-> exc, msg |-> msg, data |-> <<>>,
   sha256 |-> 0, content_length |-> 0, ops |-> ops]

\* What the browser, the network and the page do during one render.
RenderEnvs ==
  [launch : BOOLEAN, ctx : BOOLEAN, page : BOOLEAN, nav1 : BOOLEAN,
   nav2 : BOOLEAN, shot : BOOLEAN, closeCtx : BOOLEAN, closeBr : BOOLEAN,
   content : Contents, msg : Msgs]

\* what a failing context.close() / browser.close() raises
CloseFailure == "Target closed"

\* finally block of the backend engine: both closes attempted, errors dropped
BackendFinally(ops, e) ==
  ops \o <<IF e.closeCtx THEN "context.close" ELSE "context.close:error",
           IF e.closeBr THEN "browser.close" ELSE "browser.close:error">>

capture_webpage_ignoring_navigation(kind, e) ==
  IF kind \notin ValidKinds THEN Raised("ValueError", "Invalid artifact_type", <<>>)
  ELSE IF ~e.launch THEN Raised("Error", e.msg, <<"launch">>)
  ELSE IF ~e.ctx THEN Raised("Error", e.msg, <<"launch", "new_context">>)
  ELSE IF ~e.page THEN Raised("Error", e.msg, <<"launch", "new_context", "new_page">>)
  ELSE
    LET setup == <<"launch", "new_context", "new_page">>
        nav == IF e.nav1 THEN <<"goto:networkidle">>
               ELSE <<"goto:networkidle:error",
                      IF e.nav2 THEN "goto:domcontentloaded"
                      ELSE "goto:domcontentloaded:error">>
        op == IF kind = "pdf" THEN "page.pdf" ELSE "page.screenshot"
        opError == IF kind = "pdf" THEN "page.pdf:error" ELSE "page.screenshot:error"
        magic == IF kind = "pdf" THEN PDF_MAGIC ELSE PNG_MAGIC
        artifact_data == <<magic>> \o e.content
    IN IF ~e.shot
         THEN Raised("Error", e.msg, BackendFinally(setup \o nav \o <<"wait", opError>>, e))
       ELSE Returned(artifact_data, BackendFinally(setup \o nav \o <<"wait", op>>, e))

\* backend/app/capture_engine/engine.py; an operation that raised is
\* recorded with the suffix ":error"
capture_webpage(kind, e) ==
  IF kind \notin ValidKinds THEN Raised("ValueError", "Invalid artifact_type", <<>>)
  ELSE IF ~e.launch THEN Raised("Error", e.msg, <<"launch">>)
  ELSE IF ~e.ctx THEN Raised("Error", e.msg, <<"launch", "new_context">>)
  ELSE IF ~e.page THEN Raised("Error", e.msg, <<"launch", "new_context", "new_page">>)
  ELSE
    LET setup == <<"launch", "new_context", "new_page">>
        nav == IF e.nav1 THEN <<"goto:networkidle">>
               ELSE <<"goto:networkidle:error",
                      IF e.nav2 THEN "goto:domcontentloaded"
                      ELSE "goto:domcontentloaded:error">>
        navOk == e.nav1 \/ e.nav2
        op == IF kind = "pdf" THEN "page.pdf" ELSE "page.screenshot"
        opError == IF kind = "pdf" THEN "page.pdf:error" ELSE "page.screenshot:error"
        magic == IF kind = "pdf" THEN PDF_MAGIC ELSE PNG_MAGIC
        artifact_data == <<magic>> \o e.content
    IN IF ~navOk THEN Raised("Error", e.msg, BackendFinally(setup \o nav, e))
       ELSE IF ~e.shot
         THEN Raised("Error", e.msg, BackendFinally(setup \o nav \o <<"wait", opError>>, e))
       ELSE Returned(artifact_data, BackendFinally(setup \o nav \o <<"wait", op>>, e))

\* finally block of the legacy engine: a failing context.close() raises out
\* of the block, so browser.close() is skipped and the error replaces the
\* outcome; a failing browser.close() replaces the outcome as well.
LegacyFinally(outcome, e) ==
  IF ~e.closeCtx
    THEN Raised("Error", CloseFailure, outcome.ops \o <<"context.close:error">>)
  ELSE IF ~e.closeBr
    THEN Raised("Error", CloseFailure,
                outcome.ops \o <<"context.close", "browser.close:error">>)
  ELSE [outcome EXCEPT !.ops = @ \o <<"context.close", "browser.close">>]

\* app/capture_engine/engine.py
capture_webpage_legacy(kind, e) ==
  IF kind \notin ValidKinds THEN Raised("ValueError", "Invalid artifact_type", <<>>)
  ELSE IF ~e.launch THEN Raised("Error", e.msg, <<"launch">>)
  ELSE IF ~e.ctx THEN Raised("Error", e.msg, <<"launch", "new_context">>)
  ELSE IF ~e.page THEN Raised("Error", e.msg, <<"launch", "new_context", "new_page">>)
  ELSE
    LET setup == <<"launch", "new_context", "new_page">>
        artifact_data == <<PNG_MAGIC>> \o e.content
    IN IF ~e.nav1
         THEN LegacyFinally(Raised("Error", e.msg,
                 setup \o <<"goto:networkidle:error">>), e)
       ELSE IF ~e.shot
         THEN LegacyFinally(Raised("Error", e.msg,
                 setup \o <<"goto:networkidle", "wait", "page.screenshot:error">>), e)
       ELSE LegacyFinally(Returned(artifact_data,
                 setup \o <<"goto:networkidle", "wait", "page.screenshot">>), e)

capture_webpage_simple_unvalidated(kind, e) ==
  IF kind = "png"
    THEN Raised("NotImplementedError", "PNG capture not implemented in simple engine", <<>>)
  ELSE LET content == IF e.nav1 THEN e.content ELSE <<>>
           fetch == IF e.nav1 THEN "http.get" ELSE "http.get:error"
       IN Returned(<<PDF_MAGIC>> \o content, <<fetch, "canvas.save">>)

\* app/capture_engine/simple_engine.py: e.nav1 is the outcome of the HTTP GET
\* (status, transport and timeout included, recorded as "http.get:error"); a
\* failed fetch is swallowed and the failure text is rendered instead of the
\* page.
capture_webpage_simple(kind, e) ==
  IF kind \notin ValidKinds THEN Raised("ValueError", "Invalid artifact_type", <<>>)
  ELSE IF kind = "png"
    THEN Raised("NotImplementedError", "PNG capture not implemented in simple engine", <<>>)
  ELSE LET content == IF e.nav1 THEN e.content ELSE <<>>
           fetch == IF e.nav1 THEN "http.get" ELSE "http.get:error"
       IN Returned(<<PDF_MAGIC>> \o content, <<fetch, "canvas.save">>)

\* app/capture_engine/mock_engine.py
capture_webpage_mock(kind, e) ==
  IF kind \notin ValidKinds THEN Raised("ValueError", "Invalid artifact_type", <<>>)
  ELSE IF kind = "pdf" THEN Returned(<<PDF_MAGIC>>, <<>>)
  ELSE Returned(<<PNG_MAGIC>>, <<>>)

Engines == {"backend", "legacy", "simple", "mock"}

Render(engine, kind, e) ==
  CASE engine = "backend" -> capture_webpage(kind, e)
    [] engine = "legacy" -> capture_webpage_legacy(kind, e)
    [] engine = "simple" -> capture_webpage_simple(kind, e)
    [] engine = "mock" -> capture_webpage_mock(kind, e)


\* ------------------------------------------------------------------- state
VARIABLES
  settings,   \* core/config.py Settings: env
  attempts,   \* one record per capture attempt (a request to an entry point)
  s3,         \* artifact store: the objects of the bucket
  ddb,        \* provenance store: the items of the captures table
  nextId,     \* uuid.uuid4(): ids are fresh, modelled by a counter
  resp,       \* response of the last capture-route call
  signed,     \* parameters of the last presign_download call
  schedules,  \* provenance store: the items of the schedules table
  ret,        \* outcome of the last direct call of an adapter or a role guard
  now,        \* time.time()
  jwks_cache, \* auth/deps.py _jwks_cache
  jwks_calls, \* the get_jwks coroutines
  batch       \* the handle_sqs_batch invocation

vars ==
  <<settings, attempts, s3, ddb, nextId, resp, signed, schedules, ret,
    now, jwks_cache, jwks_calls, batch>>

Attempts == 1..MaxAttempts

S3KeyWithoutId(cid, kind) == <<"captures", 0, kind>>

\* f"captures/{capture_id}.{artifact_type}"
S3Key(cid, kind) == <<"captures", cid, kind>>

\* the dict returned by process_capture_request
EmptyResult ==
  [status |-> None, capture_id |-> 0, sha256 |-> 0, s3_key |-> <<>>,
   error |-> <<>>, internal_error |-> None, stack_trace |-> <<>>]

SuccessResult(cid, sha, key) ==
  [EmptyResult EXCEPT !.status = "completed", !.capture_id = cid,
                      !.sha256 = sha, !.s3_key = key]

\* except-branch return value of process_capture_request
FailureResult(cid, msg) ==
  [EmptyResult EXCEPT !.status = "failed", !.capture_id = cid,
                      !.error = <<"Capture failed - check logs for details">>,
                      !.internal_error = msg,
                      !.stack_trace = <<"Traceback", msg>>]

NoResponse == [outer |-> None, body |-> EmptyResult]

\* what an entry point answers when process_capture_request raises: the
\* except branches of eventbridge_handler and handle_sqs_batch put str(e) in
\* the summary
HandlerError(entry, text) ==
  LET body == [EmptyResult EXCEPT !.status = "error", !.error = <<text>>]
  IN CASE entry = "sqs" -> [outer |-> "batch_processed", body |-> body]
       [] entry = "processor" -> [outer |-> "raised", body |-> body]
       [] OTHER -> [outer |-> "error", body |-> body]

\* what each Lambda entry point hands back around the processor's result
Wrap(entry, result) ==
  CASE entry = "scheduled" -> [outer |-> "processed", body |-> result]
    [] entry = "direct" -> [outer |-> "processed", body |-> result]
    [] entry = "sqs" -> [outer |-> "batch_processed", body |-> result]
    [] entry = "processor" -> [outer |-> "returned", body |-> result]

\* no presign_download call yet / no route call yet
NoSigned ==
  [called |-> FALSE, raised |-> FALSE, key |-> <<>>, expires |-> [given |-> FALSE, value |-> 0],
   version_id |-> None, head |-> None, ExpiresIn |-> 0, VersionId |-> None]

NoResp ==
  [route |-> None, sub |-> None, role |-> None, target |-> 0, owner |-> None,
   http |-> 0, detail |-> None, fields |-> {}, url |-> NoSigned,
   expires_in |-> 0, s3_deleted |-> FALSE, db_deleted |-> FALSE]

Absent == "absent"

\* a schedule item none of whose attributes is set
NoSchedule ==
  [schedule_id |-> Absent, user_id |-> Absent, url |-> Absent,
   enabled |-> Absent, created_at |-> -1, updated_at |-> -1]

\* no direct adapter or guard call yet; value is what the call returned
\* ("True", "False", "admit", ...) and exc the exception it raised
NoRet ==
  [op |-> None, id |-> 0, fault |-> None, value |-> None, exc |-> None,
   first |-> None, faults |-> FALSE, existed |-> FALSE, locked |-> FALSE,
   groups |-> {}, sub |-> None, role |-> None, required |-> None,
   fallback |-> FALSE, before |-> NoSchedule, after |-> NoSchedule]

\* The metadata dict of a capture, restricted to the keys the pipeline
\* writes and one key of the caller's own; "absent" (-1 for the length)
\* stands for a key the dict does not hold.
NoMetadata ==
  [s3_version_id |-> Absent, content_length |-> -1, retention_until |-> Absent,
   schedule_id |-> Absent]

\* {**base, **extra}: keys of extra replace those of base
MergeMetadata(base, extra) ==
  [s3_version_id |-> IF extra.s3_version_id # Absent
                     THEN extra.s3_version_id ELSE base.s3_version_id,
   content_length |-> IF extra.content_length # -1
                      THEN extra.content_length ELSE base.content_length,
   retention_until |-> IF extra.retention_until # Absent
                       THEN extra.retention_until ELSE base.retention_until,
   schedule_id |-> IF extra.schedule_id # Absent
                   THEN extra.schedule_id ELSE base.schedule_id]

\* _jwks_cache = {"data": None, "expires_at": 0.0}; writer is the call that
\* stored the entry
EmptyJwksCache == [data |-> None, expires_at |-> 0, writer |-> 0]

JwksCalls == 1..MaxJwksCalls

\* a get_jwks coroutine: where it is, the current_time it read, what it
\* returned or raised, and the cache as it was when the call ended
IdleJwksCall ==
  [pc |-> "idle", current_time |-> 0, fetch |-> None, fetched |-> None,
   outcome |-> None, returned |-> None,
   cacheBefore |-> EmptyJwksCache, cacheAfter |-> EmptyJwksCache]

\* no handle_sqs_batch invocation yet
\* i counts the records the loop has consumed, a the captures it has started
NoBatch == [pc |-> "idle", records |-> <<>>, i |-> 0, a |-> 0, results |-> <<>>]

IdleAttempt ==
  [pc |-> "idle", entry |-> None, engine |-> None, url |-> None,
   kind |-> None, user |-> None, metadata |-> NoMetadata,
   cid |-> 0, data |-> <<>>, sha256 |-> 0,
   content_length |-> 0, ops |-> <<>>, calls |-> <<>>, body |-> <<>>,
   failedAt |-> None, err |-> None, response |-> NoResponse]

Terminal(a) == attempts[a].pc \in {"recorded", "failed", "raised"}
InFlight(a) == attempts[a].pc \in {"started", "rendered", "uploaded"}

Init ==
  /\ settings \in [env : {"dev", "prod"}, presign_ttl_seconds : {DEFAULT_PRESIGN_TTL}]
  /\ attempts = [a \in Attempts |-> IdleAttempt]
  /\ s3 = {}
  /\ ddb = {}
  /\ nextId = 1
  /\ resp = NoResp
  /\ signed = NoSigned
  /\ schedules = {}
  /\ ret = NoRet
  /\ now = 1
  /\ jwks_cache = EmptyJwksCache
  /\ jwks_calls = [c \in JwksCalls |-> IdleJwksCall]
  /\ batch = NoBatch

\* store lookups
RecordsOf(cid) == {r \in ddb : r.capture_id = cid}
ObjectsAt(key) == {o \in s3 : o.key = key}

\* ---------------------------------------------------------------- pipeline
\* except Exception branch of process_capture_request
Fail(att, step, msg) ==
  [att EXCEPT !.pc = "failed", !.failedAt = step, !.err = msg,
              !.response = Wrap(att.entry, FailureResult(att.cid, msg))]

BeginCaptureSharedId(a, entry, engine, url, kind, user, metadata) ==
  /\ attempts[a].pc = "idle"
  /\ \A b \in Attempts : b < a => attempts[b].pc # "idle"
  /\ engine # "none"
  /\ attempts' = [attempts EXCEPT ![a] =
        [@ EXCEPT !.entry = entry, !.engine = engine, !.url = url,
                  !.kind = kind, !.user = user, !.metadata = metadata,
                  !.pc = "started", !.cid = 1]]
  /\ UNCHANGED <<settings, s3, ddb, nextId, resp, signed, schedules, ret, now, jwks_cache,
                                                            jwks_calls, batch>>

\* Entry into process_capture_request up to capture_id = str(uuid.uuid4()).
\* engine = "none": the backend processor cannot import Playwright and raises
\* RuntimeError before the try block; eventbridge_handler turns it into an
\* error summary.
BeginCapture(a, entry, engine, url, kind, user, metadata) ==
  /\ attempts[a].pc = "idle"
  /\ \A b \in Attempts : b < a => attempts[b].pc # "idle"
  /\ LET att == [attempts[a] EXCEPT !.entry = entry, !.engine = engine,
                                    !.url = url, !.kind = kind, !.user = user,
                                    !.metadata = metadata]
     IN IF engine = "none"
        THEN /\ attempts' = [attempts EXCEPT ![a] =
                  [att EXCEPT !.pc = "raised", !.failedAt = "import",
                     !.err = "Playwright is required but not available",
                     !.response = HandlerError(entry,
                                     "Playwright is required but not available")]]
             /\ UNCHANGED nextId
        ELSE /\ attempts' = [attempts EXCEPT ![a] =
                  [att EXCEPT !.pc = "started", !.cid = nextId]]
             /\ nextId' = nextId + 1
  /\ UNCHANGED <<settings, s3, ddb, resp, signed, schedules, ret, now, jwks_cache,
                                                            jwks_calls, batch>>

\* the distinct ways a render of this attempt can end under the given
\* environments; the operation trace is kept only where it is examined
Outcomes(att, envs, keepOps) ==
  {IF keepOps THEN o ELSE [o EXCEPT !.ops = <<>>] :
     o \in {Render(att.engine, att.kind, e) : e \in envs}}

\* Step 1: capture_result = await capture_webpage(url, artifact_type)
RenderStep(a, envs, keepOps) ==
  /\ attempts[a].pc = "started"
  /\ LET att == [attempts[a] EXCEPT !.calls = Append(@, "render")]
     IN \E out \in Outcomes(att, envs, keepOps) :
          attempts' = [attempts EXCEPT ![a] =
            IF out.ok
            THEN [att EXCEPT !.pc = "rendered", !.data = out.data,
                             !.sha256 = out.sha256,
                             !.content_length = out.content_length,
                             !.ops = out.ops]
            ELSE Fail([att EXCEPT !.ops = out.ops], "render", out.msg)]
  /\ UNCHANGED <<settings, s3, ddb, nextId, resp, signed, schedules, ret, now, jwks_cache,
                                                            jwks_calls, batch>>

\* put_object parameters built by upload_artifact
PutParams(key, data) ==
  [key |-> key, body |-> data, lock |-> settings.env # "dev", version |-> "v1"]

UploadStepRetrying(a, ok, msg) ==
  /\ attempts[a].pc = "rendered"
  /\ Len(attempts[a].calls) < 3
  /\ LET att == [attempts[a] EXCEPT !.calls = Append(@, "upload"),
                                    !.body = attempts[a].data]
         put == PutParams(S3Key(att.cid, att.kind), att.body)
     IN IF ok
        THEN /\ s3' = {o \in s3 : o.key # put.key} \cup {put}
             /\ attempts' = [attempts EXCEPT ![a] = [att EXCEPT !.pc = "uploaded"]]
        ELSE /\ UNCHANGED s3
             /\ attempts' = [attempts EXCEPT ![a] = att]
  /\ UNCHANGED <<settings, ddb, nextId, resp, signed, schedules, ret, now, jwks_cache,
                                                            jwks_calls, batch>>

\* Step 2: upload_artifact(key=s3_key, data=artifact_data, ...)
UploadStep(a, ok, msg) ==
  /\ attempts[a].pc = "rendered"
  /\ LET att == [attempts[a] EXCEPT !.calls = Append(@, "upload"),
                                    !.body = attempts[a].data]
         put == PutParams(S3Key(att.cid, att.kind), att.body)
     IN IF ok
        THEN /\ s3' = {o \in s3 : o.key # put.key} \cup {put}
             /\ attempts' = [attempts EXCEPT ![a] = [att EXCEPT !.pc = "uploaded"]]
        ELSE /\ UNCHANGED s3
             /\ attempts' = [attempts EXCEPT ![a] = Fail(att, "upload", msg)]
  /\ UNCHANGED <<settings, ddb, nextId, resp, signed, schedules, ret, now, jwks_cache,
                                                            jwks_calls, batch>>

\* what upload_artifact returns for a put
UploadResult(put) == [version_id |-> put.version, retention_until |-> "r1"]

\* metadata={"s3_version_id": ..., "content_length": ..., "retention_until":
\* ..., **(metadata or {})}: the caller's keys are merged last
RecordMetadata(att, s3_result) ==
  MergeMetadata(
    [NoMetadata EXCEPT !.s3_version_id = s3_result.version_id,
                       !.content_length = att.content_length,
                       !.retention_until = s3_result.retention_until],
    att.metadata)

\* item written by create_capture
CaptureItem(att) ==
  [capture_id |-> att.cid, url |-> att.url, sha256 |-> att.sha256,
   s3_key |-> S3Key(att.cid, att.kind), artifact_type |-> att.kind,
   user_id |-> att.user, status |-> "completed",
   metadata |-> RecordMetadata(att,
                  UploadResult(PutParams(S3Key(att.cid, att.kind), att.body)))]

RecordStepOnFailureToo(a, ok, msg) ==
  /\ attempts[a].pc \in {"uploaded", "failed"}
  /\ \A i \in DOMAIN attempts[a].calls : attempts[a].calls[i] # "create"
  /\ ok
  /\ ddb' = ddb \cup {CaptureItem(attempts[a])}
  /\ attempts' = [attempts EXCEPT ![a] =
        [@ EXCEPT !.calls = Append(@, "create"),
                  !.pc = IF @ = "uploaded" THEN "recorded" ELSE @]]
  /\ UNCHANGED <<settings, s3, nextId, resp, signed, schedules, ret, now, jwks_cache,
                                                            jwks_calls, batch>>

\* Step 3: create_capture(capture_data), then the success result
RecordStep(a, ok, msg) ==
  /\ attempts[a].pc = "uploaded"
  /\ LET att == [attempts[a] EXCEPT !.calls = Append(@, "create")]
     IN IF ok
        THEN /\ ddb' = ddb \cup {CaptureItem(att)}
             /\ attempts' = [attempts EXCEPT ![a] =
                  [att EXCEPT !.pc = "recorded",
                     !.response = Wrap(att.entry,
                        SuccessResult(att.cid, att.sha256, S3Key(att.cid, att.kind)))]]
        ELSE /\ UNCHANGED ddb
             /\ attempts' = [attempts EXCEPT ![a] = Fail(att, "record", msg)]
  /\ UNCHANGED <<settings, s3, nextId, resp, signed, schedules, ret, now, jwks_cache,
                                                            jwks_calls, batch>>

\* ------------------------------------------ Spec: interleaved capture runs
\* Environments of the interleaved runs: every way a render can end, one
\* exception text.
PipelineEnvs ==
  {e \in RenderEnvs : e.msg = "m1" /\ e.closeCtx /\ e.closeBr /\ e.content # <<>>}

Begin(a) ==
  \E engine \in {"backend", "none"}, kind \in Kinds, user \in Users :
    BeginCapture(a, "processor", engine, "u1", kind, user, NoMetadata)

DoRender(a) == RenderStep(a, PipelineEnvs, FALSE)

DoUpload(a) == \E ok \in BOOLEAN : UploadStep(a, ok, "m1")

DoRecord(a) == \E ok \in BOOLEAN : RecordStep(a, ok, "m1")

Next ==
  \E a \in Attempts : Begin(a) \/ DoRender(a) \/ DoUpload(a) \/ DoRecord(a)

Spec == Init /\ [][Next]_vars


\* --------------------------------------------------------------- presign
\* error codes of the head_object probe; "Transport" is a failure that is
\* not a botocore ClientError (connection error, timeout)
NotFoundCodes == {"NoSuchVersion", "NoSuchKey", "NotFound", "404"}
HeadOutcomes == {"ok", "NoSuchVersion", "404", "AccessDenied", "Transport"}

PresignTtlUncapped(expires, default) ==
  IF expires.given /\ expires.value # 0 THEN expires.value ELSE default

\* ttl = expires or settings.presign_ttl_seconds, capped at 15 minutes
PresignTtl(expires, default) ==
  LET ttl == IF expires.given /\ expires.value # 0 THEN expires.value ELSE default
  IN IF ttl > MAX_PRESIGN_TTL_SECONDS THEN MAX_PRESIGN_TTL_SECONDS ELSE ttl

presign_download_unprobed(key, expires, version_id, head) ==
  LET ttl == PresignTtl(expires, settings.presign_ttl_seconds)
      call == [NoSigned EXCEPT !.called = TRUE, !.key = key, !.expires = expires,
                               !.version_id = version_id,
                               !.head = IF version_id = None THEN None ELSE head]
  IN [call EXCEPT !.ExpiresIn = ttl, !.VersionId = version_id]

\* presign_download(key, expires, version_id): the parameters handed to
\* generate_presigned_url; head is what the head_object probe does when a
\* version_id is supplied
presign_download(key, expires, version_id, head) ==
  LET ttl == PresignTtl(expires, settings.presign_ttl_seconds)
      call == [NoSigned EXCEPT !.called = TRUE, !.key = key, !.expires = expires,
                               !.version_id = version_id,
                               !.head = IF version_id = None THEN None ELSE head]
  IN IF version_id # None /\ head = "Transport"
     THEN [call EXCEPT !.raised = TRUE]
     ELSE [call EXCEPT !.ExpiresIn = ttl,
                       !.VersionId = IF version_id # None /\ head = "ok"
                                     THEN version_id ELSE None]

\* --------------------------------------- SpecPresign: presign_download alone
ExpiresValues == {-5, 0, 1, 60, 899, 900, 901, 1800}
ExpiresArgs ==
  {[given |-> FALSE, value |-> 0]} \cup {[given |-> TRUE, value |-> v] : v \in ExpiresValues}
DefaultTtls == {0, 1, 300, 900, 901, 3600}

InitPresign ==
  /\ settings \in [env : {"dev"}, presign_ttl_seconds : DefaultTtls]
  /\ attempts = [a \in Attempts |-> IdleAttempt]
  /\ s3 = {}
  /\ ddb = {}
  /\ nextId = 1
  /\ resp = NoResp
  /\ signed = NoSigned
  /\ schedules = {}
  /\ ret = NoRet
  /\ now = 1
  /\ jwks_cache = EmptyJwksCache
  /\ jwks_calls = [c \in JwksCalls |-> IdleJwksCall]
  /\ batch = NoBatch

PresignCall ==
  \E expires \in ExpiresArgs, version_id \in {None, "v1"}, head \in HeadOutcomes :
    /\ signed' = presign_download(S3Key(1, "pdf"), expires, version_id, head)
    /\ UNCHANGED <<settings, attempts, s3, ddb, nextId, resp, schedules, ret, now, jwks_cache,
                                                            jwks_calls, batch>>

NextPresign == PresignCall

SpecPresign == InitPresign /\ [][NextPresign]_vars

\* ------------------------------------------------------------ auth helpers
Roles == {"viewer", "operator", "admin"}

\* ROLE_HIERARCHY
RoleRank(role) ==
  CASE role = "viewer" -> 1 [] role = "operator" -> 2 [] role = "admin" -> 3

\* require_viewer / require_operator / require_admin
RoleAllows(caller, required) == RoleRank(caller.role) >= RoleRank(required)

\* can_access_user_resource: admins, else only the owner
can_access_user_resource(caller, resource_user_id) ==
  caller.role = "admin" \/ caller.sub = resource_user_id

\* ------------------------------------------------------------ store reads
\* get_capture: first item of the query, None when there is none or when
\* the query fails with ClientError
get_capture(cid, readOk) ==
  IF readOk /\ RecordsOf(cid) # {} THEN {CHOOSE r \in RecordsOf(cid) : TRUE} ELSE {}

\* get_capture_by_hash: first match of the HashIndex query
get_capture_by_hash(sha, readOk) ==
  LET hits == {r \in ddb : r.sha256 = sha}
  IN IF readOk /\ hits # {}
     THEN {CHOOSE r \in hits : \A q \in hits : r.capture_id <= q.capture_id}
     ELSE {}

\* what a store call can run into: nothing, a botocore ClientError (access
\* denied), or a failure that is not a ClientError (connection error, timeout)
StoreFaults == {"ok", "AccessDenied", "Transport"}

\* error code of head_object for the latest version of key
HeadObject(key, fault) ==
  IF fault # "ok" THEN fault ELSE IF ObjectsAt(key) = {} THEN "404" ELSE "ok"

\* error code of a lookup of one version of key: the store fault if there is
\* one, not found when the key holds no such version
VersionProbe(key, version_id, fault) ==
  IF fault # "ok" THEN fault
  ELSE IF \E o \in ObjectsAt(key) : o.version = version_id THEN "ok"
  ELSE "NoSuchVersion"

\* the exception a failed store call raises
StoreException(code) ==
  IF code = "ok" THEN None
  ELSE IF code = "Transport" THEN "EndpointConnectionError" ELSE "ClientError"

\* get_artifact_metadata(key, version_id): with a version_id the versioned
\* head_object first, falling back to the latest version on a not-found
\* code and re-raising every other error; without one the latest version.
\* probe and fault are what the versioned and the latest lookup run into.
get_artifact_metadata(key, version_id, probe, fault) ==
  LET head == IF version_id = None THEN None ELSE VersionProbe(key, version_id, probe)
      fallback == version_id # None /\ head \in NotFoundCodes
      code == IF version_id # None /\ ~fallback THEN head ELSE HeadObject(key, fault)
  IN [exc |-> StoreException(code), code |-> code, head |-> head,
      fallback |-> fallback,
      object_lock_mode |-> IF code = "ok" /\ \E o \in ObjectsAt(key) : o.lock
                           THEN "COMPLIANCE" ELSE None]

\* get_artifact(key, version_id): the same policy around get_object
get_artifact(key, version_id, probe, fault) ==
  LET head == IF version_id = None THEN None ELSE VersionProbe(key, version_id, probe)
      fallback == version_id # None /\ head \in NotFoundCodes
      code == IF version_id # None /\ ~fallback THEN head ELSE HeadObject(key, fault)
  IN [exc |-> StoreException(code), code |-> code, head |-> head,
      fallback |-> fallback,
      data |-> IF code = "ok" THEN (CHOOSE o \in ObjectsAt(key) : TRUE).body ELSE <<>>]

\* verify_object_lock: the lock mode is COMPLIANCE; except ClientError ->
\* False; an exception that is not a ClientError leaves the function
verify_object_lock(key, fault) ==
  LET metadata == get_artifact_metadata(key, None, "ok", fault)
  IN IF metadata.exc = None
     THEN [exc |-> None, value |-> metadata.object_lock_mode = "COMPLIANCE"]
     ELSE IF metadata.exc = "ClientError" THEN [exc |-> None, value |-> FALSE]
     ELSE [exc |-> metadata.exc, value |-> FALSE]

\* delete_object: True unless delete_object raises ClientError; S3 refuses
\* to delete a version under COMPLIANCE retention
S3DeleteSucceeds(key, storeOk) ==
  storeOk /\ \A o \in ObjectsAt(key) : ~o.lock

\* delete_capture: looks the item up again for its sort key, then deletes it
DdbDeleteSucceeds(cid, readOk, storeOk) ==
  readOk /\ RecordsOf(cid) # {} /\ storeOk

\* ------------------------------------------------------------------ routes
Callers ==
  {[sub |-> "alice", role |-> "operator"], [sub |-> "bob", role |-> "viewer"],
   [sub |-> "bob", role |-> "operator"], [sub |-> "bob", role |-> "admin"]}

RouteResp(route, caller, target) ==
  [NoResp EXCEPT !.route = route, !.sub = caller.sub, !.role = caller.role,
                 !.target = target]

RecordFields == {"id", "sha256", "s3_key", "artifact_type", "url", "created_at", "status"}
VerifyFields == {"capture_id", "url", "artifact_type", "created_at"}

\* effect of a route call: the response and the stores it leaves
Effect(r, objects, items, url) == [resp |-> r, s3 |-> objects, ddb |-> items, signed |-> url]

\* GET /captures/{capture_id}
get_capture_by_id(caller, cid, readOk) ==
  LET found == get_capture(cid, readOk)
      base == RouteResp("get", caller, cid)
  IN IF found = {}
     THEN Effect([base EXCEPT !.http = 404, !.detail = "Capture not found"], s3, ddb, signed)
     ELSE LET capture == CHOOSE r \in found : TRUE
              owned == [base EXCEPT !.owner = capture.user_id]
          IN IF ~can_access_user_resource(caller, capture.user_id)
             THEN Effect([owned EXCEPT !.http = 403, !.detail = "Access denied"],
                         s3, ddb, signed)
             ELSE Effect([owned EXCEPT !.http = 200, !.fields = RecordFields],
                         s3, ddb, signed)

\* GET /captures/{capture_id}/download
download_capture(caller, cid, readOk, head) ==
  LET found == get_capture(cid, readOk)
      base == RouteResp("download", caller, cid)
  IN IF found = {}
     THEN Effect([base EXCEPT !.http = 404, !.detail = "Capture not found"], s3, ddb, signed)
     ELSE LET capture == CHOOSE r \in found : TRUE
              owned == [base EXCEPT !.owner = capture.user_id]
              url == presign_download(capture.s3_key, [given |-> FALSE, value |-> 0],
                                      capture.metadata.s3_version_id, head)
          IN IF ~can_access_user_resource(caller, capture.user_id)
             THEN Effect([owned EXCEPT !.http = 403, !.detail = "Access denied"],
                         s3, ddb, signed)
             ELSE IF url.raised
             THEN Effect([owned EXCEPT !.http = 500, !.detail = "Internal Server Error"],
                         s3, ddb, url)
             ELSE Effect([owned EXCEPT !.http = 200, !.url = url, !.expires_in = 900,
                                       !.fields = {"filename", "content_type"}],
                         s3, ddb, url)

\* POST /captures/verify
verify_capture(caller, sha, readOk, fault) ==
  LET found == get_capture_by_hash(sha, readOk)
      base == RouteResp("verify", caller, sha)
  IN IF found = {}
     THEN Effect([base EXCEPT !.http = 200, !.detail = "No capture found with this hash"],
                 s3, ddb, signed)
     ELSE LET capture == CHOOSE r \in found : TRUE
              object_locked == verify_object_lock(capture.s3_key, fault)
          IN IF object_locked.exc # None
             THEN Effect([base EXCEPT !.owner = capture.user_id, !.http = 500,
                                      !.detail = "Internal Server Error"],
                         s3, ddb, signed)
             ELSE Effect([base EXCEPT !.owner = capture.user_id, !.http = 200,
                            !.fields = VerifyFields,
                            !.detail = IF object_locked.value
                                       THEN "object_lock_verified"
                                       ELSE "object_lock_unverified"],
                         s3, ddb, signed)

\* DELETE /captures/{capture_id}
delete_capture_by_id(caller, cid, readOk, s3Ok, readOk2, ddbOk) ==
  LET found == get_capture(cid, readOk)
      base == RouteResp("delete", caller, cid)
  IN IF ~RoleAllows(caller, "operator")
     THEN Effect([base EXCEPT !.http = 403, !.detail = "Insufficient permissions"],
                 s3, ddb, signed)
     ELSE IF found = {}
     THEN Effect([base EXCEPT !.http = 404, !.detail = "Capture not found"], s3, ddb, signed)
     ELSE LET capture == CHOOSE r \in found : TRUE
              owned == [base EXCEPT !.owner = capture.user_id]
              s3_deleted == S3DeleteSucceeds(capture.s3_key, s3Ok)
              db_deleted == DdbDeleteSucceeds(cid, readOk2, ddbOk)
              objects == IF s3_deleted THEN {o \in s3 : o.key # capture.s3_key} ELSE s3
              items == IF db_deleted THEN ddb \ RecordsOf(cid) ELSE ddb
          IN IF ~can_access_user_resource(caller, capture.user_id)
             THEN Effect([owned EXCEPT !.http = 403, !.detail = "Access denied"],
                         s3, ddb, signed)
             ELSE IF db_deleted
             THEN Effect([owned EXCEPT !.http = 200, !.detail = "deleted successfully",
                                       !.s3_deleted = s3_deleted, !.db_deleted = TRUE],
                         objects, items, signed)
             ELSE Effect([owned EXCEPT !.http = 500, !.detail = "Failed to delete capture",
                                       !.s3_deleted = s3_deleted],
                         objects, items, signed)

\* ------------------------- SpecRoutes: captures one at a time, then routes
RouteEnvs ==
  {e \in RenderEnvs : e.msg = "m1" /\ e.closeCtx /\ e.closeBr /\ e.content = <<0>>
                      /\ e.launch /\ e.ctx /\ e.page /\ e.shot /\ e.nav2}

SeqBegin(a) ==
  /\ a <= MaxRouteCaptures
  /\ \A b \in Attempts : ~InFlight(b)
  /\ \E user \in Users : BeginCapture(a, "processor", "backend", "u1", "pdf", user, NoMetadata)

SeqRender(a) == RenderStep(a, RouteEnvs, FALSE)

KnownIds == 1..MaxRouteCaptures
KnownHashes == {Sha256(<<PDF_MAGIC, 0>>)}

Apply(effects) ==
  /\ \E eff \in effects :
       /\ resp' = eff.resp
       /\ s3' = eff.s3
       /\ ddb' = eff.ddb
       /\ signed' = eff.signed
  /\ UNCHANGED <<settings, attempts, nextId, schedules, ret, now, jwks_cache,
                                                            jwks_calls, batch>>

GetRoute ==
  Apply({get_capture_by_id(c, cid, readOk) :
           c \in Callers, cid \in KnownIds, readOk \in BOOLEAN})

DownloadRoute ==
  Apply({download_capture(c, cid, readOk, head) :
           c \in Callers, cid \in KnownIds, readOk \in BOOLEAN, head \in HeadOutcomes})

VerifyRoute ==
  Apply({verify_capture(c, sha, readOk, fault) :
           c \in Callers, sha \in KnownHashes, readOk \in BOOLEAN, fault \in StoreFaults})

DeleteRoute ==
  Apply({delete_capture_by_id(c, cid, readOk, s3Ok, readOk2, ddbOk) :
           c \in Callers, cid \in KnownIds, readOk \in BOOLEAN, s3Ok \in BOOLEAN,
           readOk2 \in BOOLEAN, ddbOk \in BOOLEAN})

NextRoutes ==
  \/ \E a \in Attempts : SeqBegin(a) \/ SeqRender(a) \/ DoUpload(a) \/ DoRecord(a)
  \/ GetRoute
  \/ DownloadRoute
  \/ VerifyRoute
  \/ DeleteRoute

SpecRoutes == Init /\ [][NextRoutes]_vars

\* ----------------------------------------------------- trigger / sync route
TypeErrorText ==
  "process_capture_request() got an unexpected keyword argument 'capture_id'"

RouteFailurePrefix(route) ==
  IF route = "trigger" THEN "Failed to archive screenshot: "
  ELSE "Capture processing failed: "

\* POST /captures/trigger and POST /captures/sync: the route draws its own
\* capture_id and passes it as keyword capture_id; process_capture_request
\* declares no such parameter, so the call raises TypeError before the
\* function body runs and the route's except branch answers 500 with str(e).
trigger_capture(a, route, kind, user) ==
  /\ attempts[a].pc = "idle"
  /\ \A b \in Attempts : b < a => attempts[b].pc # "idle"
  /\ attempts' = [attempts EXCEPT ![a] =
       [@ EXCEPT !.pc = "raised", !.entry = route, !.engine = "backend",
                 !.url = "u1", !.kind = kind, !.user = user, !.cid = nextId,
                 !.failedAt = "bind", !.err = TypeErrorText,
                 !.response = [outer |-> "http500",
                               body |-> [EmptyResult EXCEPT !.status = "error",
                                 !.error = <<RouteFailurePrefix(route), TypeErrorText>>]]]]
  /\ nextId' = nextId + 1
  /\ UNCHANGED <<settings, s3, ddb, resp, signed, schedules, ret, now, jwks_cache,
                                                            jwks_calls, batch>>

\* ------------------------------- SpecEntry: entry points, one at a time
LambdaEntries == {"scheduled", "sqs", "direct"}
RouteEntries == {"trigger", "sync"}

EntryEnvs ==
  {e \in RenderEnvs : e.closeCtx /\ e.closeBr /\ e.content = <<0>>
                      /\ e.launch /\ e.ctx /\ e.page /\ e.shot}

\* metadata the events carry: handle_scheduled_capture passes
\* {"schedule_id": ...} or None, the SQS and direct handlers pass the
\* event's own metadata dict
ScheduleMetadata == [NoMetadata EXCEPT !.schedule_id = "s1"]
EventMetadata ==
  {NoMetadata, ScheduleMetadata,
   [NoMetadata EXCEPT !.content_length = 0],
   [NoMetadata EXCEPT !.s3_version_id = "v0"]}

EntryMetadata(entry) ==
  IF entry = "scheduled" THEN {NoMetadata, ScheduleMetadata} ELSE EventMetadata

EntryBegin(a) ==
  /\ \A b \in Attempts : ~InFlight(b)
  /\ \E entry \in LambdaEntries, engine \in {"backend", "none"} :
       \E metadata \in EntryMetadata(entry) :
         BeginCapture(a, entry, engine, "u1", "pdf", "alice", metadata)

EntryRoute(a) ==
  /\ \A b \in Attempts : ~InFlight(b)
  /\ \E route \in RouteEntries, kind \in ValidKinds : trigger_capture(a, route, kind, "alice")

EntryRender(a) == RenderStep(a, EntryEnvs, FALSE)

EntryUpload(a) ==
  \/ UploadStep(a, TRUE, "m1")
  \/ \E msg \in Msgs : UploadStep(a, FALSE, msg)

EntryRecord(a) ==
  \/ RecordStep(a, TRUE, "m1")
  \/ \E msg \in Msgs : RecordStep(a, FALSE, msg)

NextEntry ==
  \E a \in Attempts :
    EntryBegin(a) \/ EntryRoute(a) \/ EntryRender(a) \/ EntryUpload(a) \/ EntryRecord(a)

SpecEntry == Init /\ [][NextEntry]_vars

\* ------------------------------------------ SpecSqs: handle_sqs_batch
\* an SQS record: its body is not JSON (or not an object), holds no url, or
\* is a capture request
RecordKinds == {"malformed", "nourl", "capture"}

RECURSIVE SeqsUpTo(_, _)
SeqsUpTo(S, n) ==
  IF n = 0 THEN {<<>>}
  ELSE LET shorter == SeqsUpTo(S, n - 1)
       IN shorter \cup {Append(q, x) : q \in {r \in shorter : Len(r) = n - 1}, x \in S}

Captures(records) == {i \in 1..Len(records) : records[i] = "capture"}

\* event["Records"]
Batches ==
  {r \in SeqsUpTo(RecordKinds, MaxBatch) : Cardinality(Captures(r)) <= MaxAttempts}

ErrorResult(text) == [EmptyResult EXCEPT !.status = "error", !.error = <<text>>]

AppendResultUnlessNoUrl(results, kind) ==
  IF kind = "malformed" THEN Append(results, ErrorResult("Expecting value"))
  ELSE results

\* a record that starts no capture: json.loads or body.get raises and the
\* except branch appends str(e); a body without url appends the error dict
\* and continues
AppendResult(results, kind) ==
  IF kind = "malformed" THEN Append(results, ErrorResult("Expecting value"))
  ELSE Append(results, ErrorResult("No URL in SQS message"))

\* the for loop has run out of records: return {"status": "batch_processed"}
LoopPc(records, i) == IF i = Len(records) THEN "done" ELSE "loop"

\* eventbridge_handler finds "Records" in the event and calls
\* handle_sqs_batch: records = event.get("Records", []), results = []
SqsStart ==
  /\ batch.pc = "idle"
  /\ \E records \in Batches :
       batch' = [NoBatch EXCEPT !.records = records, !.pc = LoopPc(records, 0)]
  /\ UNCHANGED <<settings, attempts, s3, ddb, nextId, resp, signed, schedules,
                 ret, now, jwks_cache, jwks_calls>>

\* one iteration up to its append or to the call of process_capture_request
SqsRecord ==
  /\ batch.pc = "loop"
  /\ LET i == batch.i + 1
         kind == batch.records[i]
     IN batch' =
          IF kind = "capture"
            THEN [batch EXCEPT !.i = i, !.a = @ + 1, !.pc = "capture"]
            ELSE [batch EXCEPT !.i = i, !.results = AppendResult(@, kind),
                               !.pc = LoopPc(batch.records, i)]
  /\ UNCHANGED <<settings, attempts, s3, ddb, nextId, resp, signed, schedules,
                 ret, now, jwks_cache, jwks_calls>>

\* asyncio.run(process_capture_request(url, artifact_type, user_id, metadata))
SqsBegin(a) ==
  /\ batch.pc = "capture"
  /\ a = batch.a
  /\ \E engine \in {"backend", "none"}, metadata \in {NoMetadata, ScheduleMetadata} :
       BeginCapture(a, "sqs", engine, "u1", "pdf", "alice", metadata)

\* results.append(result), or the except branch's append when the call raised
SqsCollect ==
  /\ batch.pc = "capture"
  /\ Terminal(batch.a)
  /\ batch' = [batch EXCEPT !.results = Append(@, attempts[batch.a].response.body),
                            !.pc = LoopPc(batch.records, batch.i)]
  /\ UNCHANGED <<settings, attempts, s3, ddb, nextId, resp, signed, schedules,
                 ret, now, jwks_cache, jwks_calls>>

NextSqs ==
  \/ SqsStart
  \/ SqsRecord
  \/ SqsCollect
  \/ \E a \in Attempts :
       SqsBegin(a) \/ EntryRender(a) \/ EntryUpload(a) \/ EntryRecord(a)

SpecSqs == Init /\ [][NextSqs]_vars

\* --------------------- SpecRender: every renderer under every environment
RenderBegin(a) ==
  /\ a <= MaxRenderRuns
  /\ \A b \in Attempts : ~InFlight(b)
  /\ \E engine \in Engines, kind \in Kinds :
       BeginCapture(a, "processor", engine, "u1", kind, "alice", NoMetadata)

RenderRun(a) == RenderStep(a, {e \in RenderEnvs : e.msg = "m1"}, TRUE)

NextRender ==
  \E a \in Attempts : RenderBegin(a) \/ RenderRun(a) \/ DoUpload(a) \/ DoRecord(a)

SpecRender == Init /\ [][NextRender]_vars

\* ------------------------------------ SpecStore: the adapters called directly
Bool(b) == IF b THEN "True" ELSE "False"

\* delete_capture(capture_id): get_capture for the sort key (None when the
\* query fails with ClientError or finds nothing -> False), then delete_item;
\* except ClientError -> False; other exceptions propagate
delete_capture(cid, read, del) ==
  IF read = "Transport" THEN [exc |-> "EndpointConnectionError", value |-> None, items |-> ddb]
  ELSE IF get_capture(cid, read = "ok") = {} THEN [exc |-> None, value |-> "False", items |-> ddb]
  ELSE IF del = "Transport" THEN [exc |-> "EndpointConnectionError", value |-> None, items |-> ddb]
  ELSE IF del # "ok" THEN [exc |-> None, value |-> "False", items |-> ddb]
  ELSE [exc |-> None, value |-> "True", items |-> ddb \ RecordsOf(cid)]

\* delete_schedule(schedule_id): delete_item by key, which succeeds whether
\* or not the item exists; except ClientError -> False
delete_schedule(schedule_id, fault) ==
  IF fault = "Transport"
    THEN [exc |-> "EndpointConnectionError", value |-> None, items |-> schedules]
  ELSE IF fault # "ok" THEN [exc |-> None, value |-> "False", items |-> schedules]
  ELSE [exc |-> None, value |-> "True",
        items |-> {x \in schedules : x.schedule_id # schedule_id}]

\* item written by create_schedule: created_at and updated_at are the
\* timestamp of the call
ScheduleItem(schedule_id, user) ==
  [schedule_id |-> schedule_id, user_id |-> user, url |-> "u1",
   enabled |-> "True", created_at |-> now, updated_at |-> now]

\* get_schedule(schedule_id): the item, or NoSchedule for None
get_schedule(schedule_id) ==
  IF \E x \in schedules : x.schedule_id = schedule_id
    THEN CHOOSE x \in schedules : x.schedule_id = schedule_id
    ELSE NoSchedule

\* update_schedule(schedule_id, updates): SET updated_at and every key of
\* updates except schedule_id and created_at; update_item carries no
\* condition, so it writes an item for the key whether or not one exists
\* and returns ALL_NEW; except ClientError -> None
update_schedule(schedule_id, updates, fault) ==
  LET old == get_schedule(schedule_id)
      new == [old EXCEPT
                !.schedule_id = schedule_id,
                !.updated_at = now,
                !.url = IF updates.url # Absent THEN updates.url ELSE @,
                !.enabled = IF updates.enabled # Absent THEN updates.enabled ELSE @]
  IN IF fault = "Transport"
       THEN [exc |-> "EndpointConnectionError", value |-> None,
             attrs |-> NoSchedule, items |-> schedules]
     ELSE IF fault # "ok"
       THEN [exc |-> None, value |-> None, attrs |-> NoSchedule, items |-> schedules]
     ELSE [exc |-> None, value |-> "item", attrs |-> new,
           items |-> {x \in schedules : x.schedule_id # schedule_id} \cup {new}]

\* the updates a caller passes: a field change, and one that also names the
\* key and the creation timestamp
ScheduleUpdates ==
  { [NoSchedule EXCEPT !.enabled = "False"],
    [NoSchedule EXCEPT !.url = "u2", !.schedule_id = "s2", !.created_at = 0] }

ScheduleIds == {"s1", "s2"}

\* outcome of a direct call; first is what the call just before it returned
\* when that was the same operation on the same identity, faults whether a
\* store fault occurred in this call or in that run of calls
Track(op, id, fault, out) ==
  LET again == ret.op = op /\ ret.id = id
  IN [NoRet EXCEPT !.op = op, !.id = id, !.fault = fault,
                   !.value = out.value, !.exc = out.exc,
                   !.first = IF ~again THEN None
                             ELSE IF ret.exc # None THEN "raised" ELSE ret.value,
                   !.faults = (fault # "ok") \/ (again /\ ret.faults)]

CreateScheduleCall ==
  \E id \in ScheduleIds, user \in Users :
    /\ schedules' = {x \in schedules : x.schedule_id # id} \cup {ScheduleItem(id, user)}
    /\ ret' = [NoRet EXCEPT !.op = "create_schedule", !.id = id, !.fault = "ok",
                            !.value = "item"]
    /\ UNCHANGED <<settings, attempts, s3, ddb, nextId, resp, signed, now, jwks_cache,
                                                            jwks_calls, batch>>

DeleteScheduleCall ==
  \E id \in ScheduleIds, fault \in StoreFaults :
    LET out == delete_schedule(id, fault)
    IN /\ schedules' = out.items
       /\ ret' = [Track("delete_schedule", id, fault, out) EXCEPT
                    !.existed = \E x \in schedules : x.schedule_id = id]
       /\ UNCHANGED <<settings, attempts, s3, ddb, nextId, resp, signed, now, jwks_cache,
                                                            jwks_calls, batch>>

DeleteCaptureCall ==
  \E cid \in KnownIds, read \in StoreFaults, del \in StoreFaults :
    LET out == delete_capture(cid, read, del)
        fault == IF read # "ok" THEN read ELSE del
    IN /\ ddb' = out.items
       /\ ret' = [Track("delete_capture", cid, fault, out) EXCEPT
                    !.existed = RecordsOf(cid) # {}]
       /\ UNCHANGED <<settings, attempts, s3, nextId, resp, signed, schedules, now, jwks_cache,
                                                            jwks_calls, batch>>

VerifyLockCall ==
  \E cid \in KnownIds, fault \in StoreFaults :
    LET key == S3Key(cid, "pdf")
        out == verify_object_lock(key, fault)
    IN /\ ret' = [Track("verify_object_lock", cid, fault,
                        [exc |-> out.exc,
                         value |-> IF out.exc # None THEN None ELSE Bool(out.value)])
                    EXCEPT !.existed = ObjectsAt(key) # {},
                           !.locked = \E o \in ObjectsAt(key) : o.lock]
       /\ UNCHANGED <<settings, attempts, s3, ddb, nextId, resp, signed, schedules, now, jwks_cache,
                                                            jwks_calls, batch>>

UpdateScheduleCall ==
  \E id \in ScheduleIds, updates \in ScheduleUpdates, fault \in StoreFaults :
    LET out == update_schedule(id, updates, fault)
    IN /\ schedules' = out.items
       /\ ret' = [NoRet EXCEPT
                    !.op = "update_schedule", !.id = id, !.fault = fault,
                    !.value = out.value, !.exc = out.exc,
                    !.existed = \E x \in schedules : x.schedule_id = id,
                    !.before = get_schedule(id),
                    !.after = out.attrs]
       /\ UNCHANGED <<settings, attempts, s3, ddb, nextId, resp, signed, now,
                      jwks_cache, jwks_calls, batch>>

\* time.time() moves on
TickSeconds == JWKS_CACHE_TTL \div 2

Tick ==
  /\ now < MaxTicks * TickSeconds
  /\ now' = now + TickSeconds
  /\ UNCHANGED <<settings, attempts, s3, ddb, nextId, resp, signed, schedules,
                 ret, jwks_cache, jwks_calls, batch>>

\* the schedule operations are followed over MaxScheduleTicks clock steps
ScheduleTick ==
  /\ now < MaxScheduleTicks * TickSeconds
  /\ Tick

NextSchedule ==
  \/ CreateScheduleCall
  \/ UpdateScheduleCall
  \/ DeleteScheduleCall
  \/ ScheduleTick

SpecSchedule == Init /\ [][NextSchedule]_vars

NextStore ==
  \/ \E a \in Attempts : SeqBegin(a) \/ SeqRender(a) \/ DoUpload(a) \/ DoRecord(a)
  \/ CreateScheduleCall
  \/ DeleteScheduleCall
  \/ DeleteCaptureCall
  \/ VerifyLockCall

SpecStore == Init /\ [][NextStore]_vars

\* --------------------------------------------- SpecJwks: the JWKS cache
\* settings.jwt_jwks_url as a call finds it
JwksUrls == {None, "https://idp/jwks.json"}

\* key sets the identity provider serves
KeySets == {"k1", "k2"}

\* how the request of a call ends: "ok", raise_for_status raising, the
\* transport failing, response.json() raising, and the client failing to
\* close after the body of the async with has returned
FetchOutcomes == {"ok", "HTTPStatusError", "ConnectError", "JSONDecodeError", "aclose"}

FetchFailures == {"HTTPStatusError", "ConnectError", "JSONDecodeError"}

\* _jwks_cache["data"] is not None and current_time < _jwks_cache["expires_at"]
CacheValid(current_time) ==
  jwks_cache.data # None /\ current_time < jwks_cache.expires_at

CacheEntryAtCompletion(c, jwks_data) ==
  [data |-> jwks_data, expires_at |-> now + JWKS_CACHE_TTL, writer |-> c]

\* _jwks_cache["data"] = jwks_data;
\* _jwks_cache["expires_at"] = current_time + _JWKS_CACHE_TTL
CacheEntry(c, jwks_data) ==
  [data |-> jwks_data,
   expires_at |-> jwks_calls[c].current_time + JWKS_CACHE_TTL, writer |-> c]

\* get_jwks up to its await: the configuration check, time.time(), the
\* cache test
JwksStart(c) ==
  /\ jwks_calls[c].pc = "idle"
  /\ \E url \in JwksUrls :
       jwks_calls' = [jwks_calls EXCEPT ![c] =
         IF url = None
           THEN [@ EXCEPT !.pc = "done", !.outcome = "AuthenticationError",
                          !.cacheBefore = jwks_cache, !.cacheAfter = jwks_cache]
         ELSE IF CacheValid(now)
           THEN [@ EXCEPT !.pc = "done", !.current_time = now,
                          !.outcome = "cached", !.returned = jwks_cache.data,
                          !.cacheBefore = jwks_cache, !.cacheAfter = jwks_cache]
         ELSE [@ EXCEPT !.pc = "await", !.current_time = now]]
  /\ UNCHANGED <<settings, attempts, s3, ddb, nextId, resp, signed, schedules,
                 ret, now, jwks_cache, batch>>

\* get_jwks from the answer of client.get to its return or raise; there is
\* no await between the two cache assignments
JwksFinish(c) ==
  /\ jwks_calls[c].pc = "await"
  /\ \E fetch \in FetchOutcomes, jwks_data \in KeySets :
       LET stored == fetch \in {"ok", "aclose"}
           cache == IF stored THEN CacheEntry(c, jwks_data) ELSE jwks_cache
       IN /\ jwks_cache' = cache
          /\ jwks_calls' = [jwks_calls EXCEPT ![c] =
               [@ EXCEPT !.pc = "done", !.fetch = fetch,
                         !.fetched = IF stored THEN jwks_data ELSE None,
                         !.outcome = IF fetch = "ok" THEN "fetched"
                                     ELSE "AuthenticationError",
                         !.returned = IF fetch = "ok" THEN jwks_data ELSE None,
                         !.cacheBefore = jwks_cache, !.cacheAfter = cache]]
  /\ UNCHANGED <<settings, attempts, s3, ddb, nextId, resp, signed, schedules,
                 ret, now, batch>>

NextJwks ==
  \/ \E c \in JwksCalls : JwksStart(c) \/ JwksFinish(c)
  \/ Tick

SpecJwks == Init /\ [][NextJwks]_vars

\* ----------------------- SpecVersion: lookups of a recorded object version
VersionIds == {"v0", "v1"}

GetArtifactCall ==
  \E cid \in KnownIds, version_id \in VersionIds, probe \in StoreFaults,
     fault \in StoreFaults :
    LET out == get_artifact(S3Key(cid, "pdf"), version_id, probe, fault)
    IN /\ ret' = [NoRet EXCEPT !.op = "get_artifact", !.id = cid, !.fault = out.head,
                               !.exc = out.exc, !.fallback = out.fallback,
                               !.value = IF out.exc # None THEN None
                                         ELSE IF out.fallback THEN "latest"
                                         ELSE "versioned"]
       /\ UNCHANGED <<settings, attempts, s3, ddb, nextId, resp, signed, schedules, now, jwks_cache,
                                                            jwks_calls, batch>>

GetArtifactMetadataCall ==
  \E cid \in KnownIds, version_id \in VersionIds, probe \in StoreFaults,
     fault \in StoreFaults :
    LET out == get_artifact_metadata(S3Key(cid, "pdf"), version_id, probe, fault)
    IN /\ ret' = [NoRet EXCEPT !.op = "get_artifact_metadata", !.id = cid,
                               !.fault = out.head, !.exc = out.exc,
                               !.fallback = out.fallback,
                               !.value = IF out.exc # None THEN None
                                         ELSE IF out.fallback THEN "latest"
                                         ELSE "versioned"]
       /\ UNCHANGED <<settings, attempts, s3, ddb, nextId, resp, signed, schedules, now, jwks_cache,
                                                            jwks_calls, batch>>

PresignVersionCall ==
  \E cid \in KnownIds, version_id \in VersionIds, probe \in StoreFaults :
    LET key == S3Key(cid, "pdf")
        head == VersionProbe(key, version_id, probe)
        out == presign_download(key, [given |-> FALSE, value |-> 0], version_id, head)
    IN /\ signed' = out
       /\ ret' = [NoRet EXCEPT !.op = "presign_download", !.id = cid, !.fault = head,
                               !.exc = IF out.raised THEN StoreException(head) ELSE None,
                               !.fallback = ~out.raised /\ out.VersionId = None,
                               !.value = IF out.raised THEN None
                                         ELSE IF out.VersionId = None THEN "latest"
                                         ELSE "versioned"]
       /\ UNCHANGED <<settings, attempts, s3, ddb, nextId, resp, schedules, now, jwks_cache,
                                                            jwks_calls, batch>>

NextVersion ==
  \/ \E a \in Attempts : SeqBegin(a) \/ SeqRender(a) \/ DoUpload(a) \/ DoRecord(a)
  \/ GetArtifactCall
  \/ GetArtifactMetadataCall
  \/ PresignVersionCall

SpecVersion == Init /\ [][NextVersion]_vars

\* ------------------------------------------- SpecAuth: the role guards alone
\* COGNITO_GROUP_TO_ROLE; "staff" is a group the mapping does not know
CognitoGroups == {"admin", "user", "auditor", "staff"}
COGNITO_GROUP_TO_ROLE(group) ==
  CASE group = "admin" -> "admin"
    [] group = "user" -> "operator"
    [] group = "auditor" -> "viewer"

\* _determine_user_role: the highest role any of the groups maps to,
\* viewer when none does
determine_user_role(cognito_groups) ==
  LET mapped == {COGNITO_GROUP_TO_ROLE(g) : g \in cognito_groups \ {"staff"}}
      candidates == mapped \cup {"viewer"}
  IN CHOOSE r \in candidates : \A q \in candidates : RoleRank(r) >= RoleRank(q)

require_role_strict(role, required) ==
  LET user_role == IF role = Absent THEN "viewer" ELSE role
  IN IF user_role \notin Roles THEN [exc |-> "KeyError", value |-> None]
     ELSE IF RoleRank(user_role) <= RoleRank(required)
       THEN [exc |-> "AuthorizationError", value |-> "403"]
     ELSE [exc |-> None, value |-> "admit"]

\* require_viewer / require_operator / require_admin:
\* user_role = user_info.get("role", "viewer");
\* ROLE_HIERARCHY[user_role] < ROLE_HIERARCHY[required] -> AuthorizationError
require_role(role, required) ==
  LET user_role == IF role = Absent THEN "viewer" ELSE role
  IN IF user_role \notin Roles THEN [exc |-> "KeyError", value |-> None]
     ELSE IF RoleRank(user_role) < RoleRank(required)
       THEN [exc |-> "AuthorizationError", value |-> "403"]
     ELSE [exc |-> None, value |-> "admit"]

\* user_info as verify_jwt_token builds it from the token's groups, or a
\* user_info without a role key
GuardCall ==
  \E cognito_groups \in SUBSET CognitoGroups, sub \in Users, required \in Roles,
     withRole \in BOOLEAN :
    LET role == IF withRole THEN determine_user_role(cognito_groups) ELSE Absent
        out == require_role(role, required)
    IN /\ ret' = [NoRet EXCEPT !.op = "require_role", !.groups = cognito_groups,
                               !.sub = sub, !.role = role, !.required = required,
                               !.value = out.value, !.exc = out.exc]
       /\ UNCHANGED <<settings, attempts, s3, ddb, nextId, resp, signed, schedules, now, jwks_cache,
                                                            jwks_calls, batch>>

NextAuth == GuardCall

SpecAuth == Init /\ [][NextAuth]_vars

\* ------------------------------------------------------------------ claims
Count(seq, x) == Cardinality({i \in DOMAIN seq : seq[i] = x})

\* C1: a render failure is followed by neither upload_artifact nor
\* create_capture, an upload failure is not followed by create_capture, and
\* in both cases the attempt's capture identity has no provenance record.
C1_NoRecordAfterRenderOrUploadFailure ==
  \A a \in Attempts :
    /\ attempts[a].failedAt = "render" =>
         /\ attempts[a].calls = <<"render">>
         /\ RecordsOf(attempts[a].cid) = {}
    /\ attempts[a].failedAt = "upload" =>
         /\ attempts[a].calls = <<"render", "upload">>
         /\ RecordsOf(attempts[a].cid) = {}

C1_Witness ==
  \E a, b \in Attempts :
    /\ attempts[a].pc = "failed" /\ attempts[a].failedAt = "render"
    /\ attempts[b].pc = "failed" /\ attempts[b].failedAt = "upload"

\* C2: for a completed attempt the sha256 of the provenance record and of
\* the returned result is the digest of exactly the bytes passed as Body to
\* the upload under the attempt's key.
C2_DigestOfUploadedBody ==
  \A a \in Attempts :
    attempts[a].pc = "recorded" =>
      /\ attempts[a].response.body.sha256 = Sha256(attempts[a].body)
      /\ RecordsOf(attempts[a].cid) # {}
      /\ \A r \in RecordsOf(attempts[a].cid) :
           /\ r.sha256 = Sha256(attempts[a].body)
           /\ \A o \in ObjectsAt(r.s3_key) : r.sha256 = Sha256(o.body)

C2_Witness ==
  \E a \in Attempts :
    /\ attempts[a].pc = "recorded"
    /\ Len(attempts[a].body) > 1
    /\ ObjectsAt(S3Key(attempts[a].cid, attempts[a].kind)) # {}

\* C4 (as claimed): once an attempt is terminal, an object under
\* captures/<capture_id>.<kind> exists only if a provenance record with that
\* capture_id exists.
C4_NoObjectWithoutRecord ==
  \A a \in Attempts :
    Terminal(a) =>
      (ObjectsAt(S3Key(attempts[a].cid, attempts[a].kind)) # {}
         => RecordsOf(attempts[a].cid) # {})

\* C5 (as claimed): create_capture is never called for an attempt that fails.
C5_Original_NoCreateCallOnFailure ==
  \A a \in Attempts :
    attempts[a].pc = "failed" => Count(attempts[a].calls, "create") = 0

\* C5 (amended): create_capture is called at most once per attempt, exactly
\* once for an attempt that succeeds, and for a failed attempt only when
\* create_capture itself was the failing step, which writes nothing; capture
\* identities are distinct, so no identity ever has more than one record.
C5_AtMostOneRecordPerIdentity ==
  /\ \A a \in Attempts :
       /\ Count(attempts[a].calls, "create") <= 1
       /\ attempts[a].pc = "recorded" => Count(attempts[a].calls, "create") = 1
       /\ (attempts[a].pc = "failed" /\ attempts[a].failedAt # "record")
            => Count(attempts[a].calls, "create") = 0
       /\ attempts[a].failedAt = "record" => RecordsOf(attempts[a].cid) = {}
  /\ \A a, b \in Attempts :
       (a # b /\ attempts[a].cid # 0) => attempts[a].cid # attempts[b].cid
  /\ \A r \in ddb : Cardinality(RecordsOf(r.capture_id)) = 1

C5_Witness ==
  \E a, b \in Attempts :
    /\ attempts[a].pc = "recorded"
    /\ attempts[b].pc = "failed" /\ attempts[b].failedAt = "record"
    /\ Cardinality(ddb) = 1


Min(x, y) == IF x < y THEN x ELSE y

\* C9: presign_download signs with ExpiresIn = min(t, 900), t being expires
\* when it is given and non-zero and the configured default otherwise; the
\* effective TTL never exceeds 900 seconds.
C9_TtlClamped ==
  (signed.called /\ ~signed.raised) =>
    /\ signed.ExpiresIn =
         Min(IF signed.expires.given /\ signed.expires.value # 0
             THEN signed.expires.value ELSE settings.presign_ttl_seconds, 900)
    /\ signed.ExpiresIn <= 900

C9_Witness ==
  /\ signed.called /\ ~signed.raised
  /\ signed.expires.given /\ signed.expires.value = 1800
  /\ signed.ExpiresIn = 900


\* C3 (as claimed): every provenance record with status completed has its
\* artifact object present in the artifact store under the record's s3_key.
C3_CompletedRecordHasObject ==
  \A r \in ddb : r.status = "completed" => ObjectsAt(r.s3_key) # {}

\* C6 (as claimed): two failed captures through the same entry point that
\* differ only in the internal exception message get identical caller-visible
\* responses apart from the capture identity.
Redact(response) == [response EXCEPT !.body.capture_id = 0]

C6_FailureResponseIndependentOfMessage ==
  \A a, b \in Attempts :
    ( /\ attempts[a].pc = "failed" /\ attempts[b].pc = "failed"
      /\ attempts[a].entry = attempts[b].entry
      /\ attempts[a].url = attempts[b].url
      /\ attempts[a].kind = attempts[b].kind
      /\ attempts[a].user = attempts[b].user
      /\ attempts[a].failedAt = attempts[b].failedAt )
    => Redact(attempts[a].response) = Redact(attempts[b].response)

\* C7 (as claimed): a request through the trigger or sync route is answered
\* with a failure only when render, upload or record failed; otherwise the
\* answer is completed, carries the capture_id of the stored record and the
\* key captures/<capture_id>.<artifact_type>.
C7_RouteReportsCompleted ==
  \A a \in Attempts :
    (attempts[a].entry \in RouteEntries /\ Terminal(a)) =>
      \/ attempts[a].failedAt \in {"render", "upload", "record"}
      \/ /\ attempts[a].response.body.status = "completed"
         /\ \E r \in ddb :
              /\ r.capture_id = attempts[a].response.body.capture_id
              /\ r.s3_key = attempts[a].response.body.s3_key
              /\ r.s3_key = S3Key(r.capture_id, attempts[a].kind)

\* C8 (as claimed): a caller who is neither the owner of the resolved record
\* nor an admin gets 403 from every capture route, with no record field, no
\* download URL and nothing deleted.
C8_OwnershipCheckedBeforeAnyEffect ==
  (resp.route \in {"get", "download", "delete", "verify"}
     /\ resp.owner # None /\ resp.owner # resp.sub /\ resp.role # "admin")
  => /\ resp.http = 403
     /\ resp.fields = {}
     /\ ~resp.url.called
     /\ ~resp.s3_deleted /\ ~resp.db_deleted

\* C10: with an artifact_type other than pdf or png every renderer raises its
\* validation error before any browser launch or HTTP request, and the
\* attempt ends failed with no upload and no provenance record.
C10_InvalidKindFailsBeforeAnyActivity ==
  \A a \in Attempts :
    (attempts[a].kind \notin ValidKinds /\ attempts[a].pc \notin {"idle", "started"}) =>
      /\ attempts[a].pc = "failed"
      /\ attempts[a].failedAt = "render"
      /\ attempts[a].err = "Invalid artifact_type"
      /\ attempts[a].ops = <<>>
      /\ attempts[a].calls = <<"render">>
      /\ attempts[a].response.body.status = "failed"
      /\ \A k \in Kinds : ObjectsAt(S3Key(attempts[a].cid, k)) = {}
      /\ RecordsOf(attempts[a].cid) = {}

C10_Witness ==
  \E a \in Attempts :
    /\ attempts[a].kind = "svg" /\ attempts[a].pc = "failed"
    /\ attempts[a].engine = "simple"

Has(seq, x) == \E i \in DOMAIN seq : seq[i] = x

\* C11 (as claimed): on every exit of the browser-automation renderer after
\* the browser was launched, browser.close was attempted, and context.close
\* was attempted whenever a context was created.
C11_BrowserClosedOnEveryExit ==
  \A a \in Attempts :
    (attempts[a].engine = "backend" /\ attempts[a].pc \notin {"idle", "started"}) =>
      LET ops == attempts[a].ops
          launched == Len(ops) >= 2 /\ ops[1] = "launch"
          contextCreated == Len(ops) >= 3 /\ ops[2] = "new_context"
      IN /\ launched => (Has(ops, "browser.close") \/ Has(ops, "browser.close:error"))
         /\ contextCreated =>
              (Has(ops, "context.close") \/ Has(ops, "context.close:error"))

\* C12 (as claimed): when the HTTP GET of the fetch-and-synthesize renderer
\* fails, the attempt ends failed, nothing is uploaded and no provenance
\* record is created.
C12_FetchFailureFailsTheCapture ==
  \A a \in Attempts :
    (attempts[a].engine = "simple" /\ Has(attempts[a].ops, "http.get:error")) =>
      /\ attempts[a].pc = "failed"
      /\ attempts[a].failedAt = "render"
      /\ ObjectsAt(S3Key(attempts[a].cid, attempts[a].kind)) = {}
      /\ RecordsOf(attempts[a].cid) = {}

\* C13 (as claimed): in the browser engines the bytes of a successful capture
\* come from the operation of the requested kind, page.pdf for pdf and
\* page.screenshot for png, and the stored object carries the matching format.
C13_ArtifactMatchesRequestedKind ==
  \A a \in Attempts :
    (attempts[a].engine \in {"backend", "legacy"} /\ attempts[a].pc = "recorded") =>
      LET op == IF attempts[a].kind = "pdf" THEN "page.pdf" ELSE "page.screenshot"
          other == IF attempts[a].kind = "pdf" THEN "page.screenshot" ELSE "page.pdf"
          magic == IF attempts[a].kind = "pdf" THEN PDF_MAGIC ELSE PNG_MAGIC
      IN /\ Has(attempts[a].ops, op) /\ ~Has(attempts[a].ops, other)
         /\ \A o \in ObjectsAt(S3Key(attempts[a].cid, attempts[a].kind)) :
              Head(o.body) = magic

\* C14 (as claimed): after a delete_capture_by_id call that reached the
\* deletion, the artifact object and the provenance record of the identity
\* are either both present or both gone, and after a success response both
\* are gone.
C14_ObjectAndRecordDeletedTogether ==
  (resp.route = "delete" /\ resp.http \in {200, 500}) =>
    LET objectLeft == \E o \in s3 : o.key[2] = resp.target
        recordLeft == RecordsOf(resp.target) # {}
    IN /\ objectLeft <=> recordLeft
       /\ resp.http = 200 => (~objectLeft /\ ~recordLeft)

\* C18 (as claimed): the metadata of the record of a successful capture has
\* content_length equal to the length of the uploaded bytes, and
\* s3_version_id and retention_until equal to what the upload returned,
\* whatever metadata the caller supplied.
C18_PipelineMetadataWins ==
  \A a \in Attempts :
    attempts[a].pc = "recorded" =>
      \A r \in RecordsOf(attempts[a].cid) :
        /\ r.metadata.content_length = Len(attempts[a].body)
        /\ \A o \in ObjectsAt(r.s3_key) :
             /\ r.metadata.content_length = Len(o.body)
             /\ r.metadata.s3_version_id = UploadResult(o).version_id
             /\ r.metadata.retention_until = UploadResult(o).retention_until

\* C15 (as claimed): with the store healthy, delete_capture and
\* delete_schedule called twice in a row on one identity return true both
\* times and raise neither time, also when the second call finds no record.
C15_DeleteIsIdempotent ==
  (ret.op \in {"delete_capture", "delete_schedule"} /\ ret.first # None /\ ~ret.faults) =>
    /\ ret.first = "True"
    /\ ret.exc = None
    /\ ret.value = "True"

\* C17 (as claimed): verify_object_lock never raises, and returns true
\* exactly when the metadata retrieval succeeded and reports lock mode
\* COMPLIANCE.
C17_LockVerificationNeverRaises ==
  ret.op = "verify_object_lock" =>
    /\ ret.exc = None
    /\ ret.value = Bool(ret.fault = "ok" /\ ret.existed /\ ret.locked)

\* C16: presign_download called with a version_id signs with VersionId
\* exactly when the head_object probe of that version succeeded; when the
\* probe reports the version as not found it signs a URL for the latest
\* version (no VersionId) and does not raise.
C16_VersionSignedIffProbeSucceeded ==
  (signed.called /\ signed.version_id # None) =>
    /\ (~signed.raised /\ signed.VersionId # None) <=> signed.head = "ok"
    /\ signed.VersionId \in {None, signed.version_id}
    /\ signed.head \in NotFoundCodes =>
         (~signed.raised /\ signed.VersionId = None)

C16_Witness ==
  /\ signed.called /\ ~signed.raised
  /\ signed.version_id = "v1" /\ signed.head = "NoSuchVersion"
  /\ signed.VersionId = None /\ signed.ExpiresIn = 300

\* C19: a role guard admits the caller exactly when the caller's role (viewer
\* when user_info has none) ranks at least as high as the required role in
\* viewer < operator < admin, and otherwise raises the authorization error
\* (403); for every role a caller can carry it does one of the two.
C19_GuardAdmitsIffRankSuffices ==
  ret.op = "require_role" =>
    LET role == IF ret.role = Absent THEN "viewer" ELSE ret.role
        rank == [r \in Roles |-> IF r = "viewer" THEN 1 ELSE IF r = "operator" THEN 2 ELSE 3]
    IN /\ role \in Roles
       /\ IF rank[role] >= rank[ret.required]
          THEN ret.exc = None /\ ret.value = "admit"
          ELSE ret.exc = "AuthorizationError" /\ ret.value = "403"

C19_Witness ==
  /\ ret.op = "require_role" /\ ret.required = "operator"
  /\ ret.groups = {"auditor", "staff"} /\ ret.role = "viewer"
  /\ ret.exc = "AuthorizationError"

\* what the routes answer for an identity that does not exist;
\* nextId has not been drawn yet, so no record carries it
AnswerForMissing(route, caller) ==
  CASE route = "get" -> get_capture_by_id(caller, nextId, TRUE).resp
    [] route = "download" -> download_capture(caller, nextId, TRUE, "ok").resp
    [] route = "delete" ->
         delete_capture_by_id(caller, nextId, TRUE, TRUE, TRUE, TRUE).resp

Visible(r) == [http |-> r.http, detail |-> r.detail, fields |-> r.fields]

\* C20 (as claimed): what a non-admin caller is answered by get-by-id,
\* download or delete for an identity owned by another user equals what the
\* same caller is answered for an identity that does not exist.
C20_DenialDoesNotRevealExistence ==
  ( /\ resp.route \in {"get", "download", "delete"}
    /\ resp.role # "admin"
    /\ resp.owner # None /\ resp.owner # resp.sub )
  => Visible(resp) =
       Visible(AnswerForMissing(resp.route, [sub |-> resp.sub, role |-> resp.role]))

\* C21 (as claimed): every call of process_capture_request that has ended
\* returned a result with status completed or failed, whether or not the
\* renderer is available; no exception reached the caller.
C21_ProcessorAlwaysReturnsAResult ==
  \A a \in Attempts :
    (attempts[a].entry = "processor" /\ Terminal(a)) =>
      /\ attempts[a].pc # "raised"
      /\ attempts[a].response.outer = "returned"
      /\ attempts[a].response.body.status \in {"completed", "failed"}

\* C22: within one attempt render, upload_artifact and create_capture are
\* called at most once each, in this order, each only after the step before
\* it returned; the first failing step is the last call of the attempt.
C22_StepsOnceInOrderNoRetry ==
  \A a \in Attempts :
    LET calls == attempts[a].calls
        pc == attempts[a].pc
        failedAt == attempts[a].failedAt
    IN /\ Count(calls, "render") <= 1
       /\ Count(calls, "upload") <= 1
       /\ Count(calls, "create") <= 1
       /\ \A i \in DOMAIN calls : calls[i] = <<"render", "upload", "create">>[i]
       /\ pc \in {"idle", "started"} => calls = <<>>
       /\ pc = "rendered" => calls = <<"render">>
       /\ pc = "uploaded" => calls = <<"render", "upload">>
       /\ pc = "recorded" => calls = <<"render", "upload", "create">>
       /\ (pc = "failed" /\ failedAt = "render") => calls = <<"render">>
       /\ (pc = "failed" /\ failedAt = "upload") => calls = <<"render", "upload">>
       /\ (pc = "failed" /\ failedAt = "record") => calls = <<"render", "upload", "create">>
       /\ pc = "raised" => calls = <<>>

C22_Witness ==
  \E a, b \in Attempts :
    /\ attempts[a].pc = "recorded"
    /\ attempts[a].calls = <<"render", "upload", "create">>
    /\ attempts[b].pc = "failed" /\ attempts[b].failedAt = "upload"
    /\ attempts[b].calls = <<"render", "upload">>

\* C26: under every interleaving of capture attempts each record carries the
\* digest, key and owner of its own attempt, each stored object holds the
\* bytes of its own attempt, and a completed attempt's object and record stay
\* in place whatever the other attempts do.
C26_AttemptsAreIndependent ==
  /\ \A r \in ddb :
       \E a \in Attempts :
         /\ attempts[a].pc = "recorded"
         /\ r.capture_id = attempts[a].cid
         /\ r.sha256 = Sha256(attempts[a].body)
         /\ r.s3_key = <<"captures", attempts[a].cid, attempts[a].kind>>
         /\ r.user_id = attempts[a].user
         /\ r.url = attempts[a].url
         /\ \A b \in Attempts : attempts[b].cid = r.capture_id => b = a
  /\ \A a \in Attempts :
       attempts[a].pc \in {"uploaded", "recorded"} =>
         /\ \E o \in s3 : /\ o.key = <<"captures", attempts[a].cid, attempts[a].kind>>
                          /\ o.body = attempts[a].body
         /\ attempts[a].pc = "recorded" =>
              /\ Cardinality(RecordsOf(attempts[a].cid)) = 1
              /\ attempts[a].response.body.capture_id = attempts[a].cid
              /\ attempts[a].response.body.sha256 = Sha256(attempts[a].body)
  /\ \A o \in s3 :
       \E a \in Attempts : o.key[2] = attempts[a].cid /\ o.body = attempts[a].body

\* attempt 2 began after attempt 1 and completed while attempt 1 was still
\* between its upload and its record step
C26_Witness ==
  /\ attempts[1].pc = "uploaded" /\ attempts[2].pc = "recorded"
  /\ attempts[1].kind = attempts[2].kind
  /\ attempts[1].body # attempts[2].body
  /\ Cardinality(s3) = 2

\* C28 (as claimed): the expires_in that download_capture reports equals the
\* ExpiresIn with which presign_download signed the URL it returns.
C28_ReportedExpiryIsSignedExpiry ==
  (resp.route = "download" /\ resp.http = 200) =>
    resp.expires_in = resp.url.ExpiresIn

\* C23: in the backend browser engine the DOM-ready navigation is attempted
\* exactly when the network-settled navigation raised, at most two
\* navigations are made, the artifact operation runs only after a navigation
\* succeeded, and when both navigations fail the renderer raises and
\* returns no artifact.
C23_FallbackNavigationOnlyAfterFailure ==
  \A a \in Attempts :
    (attempts[a].engine = "backend" /\ attempts[a].pc \notin {"idle", "started"}) =>
      LET ops == attempts[a].ops
          gotos == {i \in DOMAIN ops :
                      ops[i] \in {"goto:networkidle", "goto:networkidle:error",
                                  "goto:domcontentloaded", "goto:domcontentloaded:error"}}
          fallback == Has(ops, "goto:domcontentloaded")
                        \/ Has(ops, "goto:domcontentloaded:error")
          shots == {i \in DOMAIN ops :
                      ops[i] \in {"page.pdf", "page.pdf:error",
                                  "page.screenshot", "page.screenshot:error"}}
      IN /\ fallback <=> Has(ops, "goto:networkidle:error")
         /\ Cardinality(gotos) <= 2
         /\ Count(ops, "goto:networkidle") + Count(ops, "goto:networkidle:error") <= 1
         /\ \A i \in shots :
              \E j \in gotos : j < i /\ ops[j] \in {"goto:networkidle", "goto:domcontentloaded"}
         /\ Has(ops, "goto:domcontentloaded:error") =>
              /\ shots = {}
              /\ attempts[a].pc = "failed" /\ attempts[a].failedAt = "render"
              /\ attempts[a].data = <<>>
              /\ attempts[a].calls = <<"render">>

C23_Witness ==
  \E a \in Attempts :
    /\ attempts[a].engine = "backend" /\ attempts[a].pc = "failed"
    /\ Has(attempts[a].ops, "goto:networkidle:error")
    /\ Has(attempts[a].ops, "goto:domcontentloaded:error")
    /\ Has(attempts[a].ops, "browser.close")

\* C24 (as claimed): in both browser engines a failure of context.close() or
\* browser.close() leaves the outcome of capture_webpage as it was: the
\* artifact is returned on the success path, the original error is raised on
\* a failure path, and browser.close() is attempted after context.close()
\* failed.
C24_CloseFailureKeepsOutcome ==
  \A a \in Attempts :
    ( /\ attempts[a].engine \in {"backend", "legacy"}
      /\ attempts[a].pc \notin {"idle", "started"}
      /\ Has(attempts[a].ops, "context.close:error")
           \/ Has(attempts[a].ops, "browser.close:error") )
    => LET ops == attempts[a].ops
           captured == Has(ops, "page.pdf") \/ Has(ops, "page.screenshot")
       IN /\ captured =>
               (attempts[a].failedAt # "render" /\ Len(attempts[a].data) > 0)
          /\ ~captured =>
               (attempts[a].failedAt = "render" /\ attempts[a].err # CloseFailure)
          /\ Has(ops, "context.close:error") =>
               (Has(ops, "browser.close") \/ Has(ops, "browser.close:error"))

\* C25 (as claimed): get_artifact, get_artifact_metadata and presign_download
\* fall back to the latest version exactly when the lookup of the supplied
\* version reports a not-found code, and raise on every other store error.
C25_OneFallbackPolicy ==
  ret.op \in {"get_artifact", "get_artifact_metadata", "presign_download"} =>
    /\ ret.fallback <=> ret.fault \in NotFoundCodes
    /\ ret.fault \notin (NotFoundCodes \cup {"ok"}) =>
         (ret.exc # None /\ ret.value = None)
    /\ ret.fault = "ok" => (ret.exc = None /\ ret.value = "versioned")

\* C27: update_schedule changes only non-key fields of a record that exists:
\* an update of an existing record returns it with schedule_id and created_at
\* as they were, every stored schedule carries the created_at that
\* create_schedule wrote, and an update for an identity without a record
\* returns None and leaves no record for that identity.
C27_UpdateTouchesOnlyExistingRecords ==
  /\ \A x \in schedules : x.created_at # NoSchedule.created_at
  /\ (ret.op = "update_schedule" /\ ret.exc = None) =>
       IF ret.existed
         THEN ret.value # None =>
                /\ ret.after.schedule_id = ret.before.schedule_id
                /\ ret.after.created_at = ret.before.created_at
         ELSE /\ ret.value = None
              /\ ~ \E x \in schedules : x.schedule_id = ret.id

\* C29: under any interleaving of get_jwks calls a cached key set is returned
\* only while the call's current time is strictly before the entry's
\* expires_at; the cache holds either nothing or the key set of a call whose
\* fetch succeeded together with that call's start time plus 300 seconds; a
\* call whose fetch failed raises AuthenticationError, returns no keys and
\* leaves the cache as it found it.
C29_CacheReplacedOnlyByFreshFetch ==
  /\ \A c \in JwksCalls :
       LET call == jwks_calls[c]
       IN /\ (call.pc = "done" /\ call.outcome = "cached") =>
               /\ call.cacheBefore.data # None
               /\ call.returned = call.cacheBefore.data
               /\ call.current_time < call.cacheBefore.expires_at
               /\ call.cacheAfter = call.cacheBefore
          /\ (call.pc = "done" /\ call.fetch \in FetchFailures) =>
               /\ call.outcome = "AuthenticationError"
               /\ call.returned = None
               /\ call.cacheAfter = call.cacheBefore
          /\ call.pc = "await" => jwks_cache.writer # c
  /\ \/ jwks_cache = EmptyJwksCache
     \/ /\ jwks_cache.writer \in JwksCalls
        /\ LET w == jwks_calls[jwks_cache.writer]
           IN /\ w.pc = "done"
              /\ w.fetch \in FetchOutcomes \ FetchFailures
              /\ jwks_cache.data = w.fetched
              /\ jwks_cache.data \in KeySets
              /\ jwks_cache.expires_at = w.current_time + 300

\* one call fetched and stored a key set, the clock moved on, and a later
\* call was served that key set from the cache
C29_Witness ==
  \E c, d \in JwksCalls :
    /\ jwks_calls[c].pc = "done" /\ jwks_calls[c].fetch = "ok"
    /\ jwks_cache.writer = c
    /\ jwks_calls[d].pc = "done" /\ jwks_calls[d].outcome = "cached"
    /\ jwks_calls[d].current_time > jwks_calls[c].current_time
    /\ jwks_calls[d].returned = jwks_calls[c].fetched

\* the k-th capture record of the batch is record number CaptureRank(r, i)
CaptureRank(records, i) == Cardinality({j \in Captures(records) : j <= i})

\* C30: handle_sqs_batch never raises and, when it returns, holds exactly one
\* result per record in input order: the decode error for a malformed body,
\* the missing-URL error for a body without url, and for a capture request
\* what process_capture_request returned or the error it raised; every
\* capture record was processed whatever came before it.
C30_OneResultPerRecordInOrder ==
  /\ batch.pc \in {"idle", "loop", "capture", "done"}
  /\ Len(batch.results) <= batch.i
  /\ batch.pc = "done" =>
       /\ Len(batch.results) = Len(batch.records)
       /\ \A i \in 1..Len(batch.records) :
            LET kind == batch.records[i]
                result == batch.results[i]
            IN CASE kind = "malformed" ->
                      result.status = "error" /\ result.error = <<"Expecting value">>
                 [] kind = "nourl" ->
                      result.status = "error" /\ result.error = <<"No URL in SQS message">>
                 [] kind = "capture" ->
                      LET a == CaptureRank(batch.records, i)
                      IN /\ Terminal(a)
                         /\ result = attempts[a].response.body
                         /\ result.status \in {"completed", "failed", "error"}

\* a returned batch of full length in which a record that produced an error
\* or failed result is followed by a capture request that completed
C30_Witness ==
  /\ batch.pc = "done"
  /\ Len(batch.records) = MaxBatch
  /\ \E i \in 1..(Len(batch.records) - 1) :
       /\ batch.results[i].status \in {"error", "failed"}
       /\ batch.records[i + 1] = "capture"
       /\ batch.results[i + 1].status = "completed"

====
